---- MODULE Spec2Model ----
(***************************************************************************)
(* Model of the two UI state machines of the PlanIt task scheduler:        *)
(*   - the playlist/playback controller (MusicPlayerProvider.tsx), at the  *)
(*     level of the operations its context exports plus the audio          *)
(*     element's "ended" event;                                            *)
(*   - the Pomodoro session controller (the Pomodoro page), at the level   *)
(*     of the handlers its buttons, timers and events invoke.              *)
(* React state set by a handler is visible to the next handler (a render   *)
(* happens between two events); a value read inside a handler is the one   *)
(* of the render that created the handler.  The interval callback of       *)
(* startTimer keeps the completeSession of the render that started it.     *)
(* audioRef.current is the <audio> element the provider renders, so the    *)
(* "no element" early returns are not taken.  Session records carry type,  *)
(* duration and task link; their id and date (the clock) are left out.     *)
(* The session controller is explored from its first render: the mount     *)
(* effect runs first, then the response of its settings fetch delivers one *)
(* of SettingsChoices, then the page's buttons and timers act.             *)
(***************************************************************************)
EXTENDS Integers, Sequences, FiniteSets, TLC

\* ------------------------------------------------------------------ bounds
\* longest playlist handed to loadPlaylist
MaxLen == 3
\* most session records the history grows to
MaxHistory == 3
\* largest sessionCount reached
MaxSessions == 3
\* most 'pomodoroSettingsChanged' events delivered
MaxSettingsChanges == 1
\* most session records the history grows to while such events are delivered
MaxSettingsHistory == 1
\* longest list found under 'pomodoroHistory' when the page is opened
MaxStored == 2
\* object URLs are counted up to this many (MaxUrls stands for "or more")
MaxUrls == 2

\* ------------------------------------------------------------- music data
\* File objects: a display name and an opaque content (two files share a name)
Files ==
  { [name |-> "a.mp3", blob |-> "A"],
    [name |-> "b.mp3", blob |-> "B"],
    [name |-> "a.mp3", blob |-> "C"] }

\* audio.src = "" : the element has no source
NoSrc == [name |-> "", blob |-> ""]

\* the File[] values a file input can deliver, the empty selection included
FileLists == UNION { [1..n -> Files] : n \in 0..MaxLen }

VARIABLES
  \* MusicPlayerProvider state (useState)
  playlist, currentIndex, isPlaying, fileName,
  \* the <audio> element behind audioRef: its source and whether it is playing
  audioSrc, audioPlaying,
  \* the object URLs made by URL.createObjectURL and not yet released by
  \* URL.revokeObjectURL
  unreleasedUrls,
  \* history variables of the playback controller: the last operation, the
  \* controller state it started from, and the run of consecutive nextSong calls
  lastOp, before, streak, streakStart

VARIABLES
  \* PomodoroPage state (useState)
  timeLeft, isRunning, isBreak, isLongBreak, selectedTaskId, tasks, history,
  sessionCount, settings,
  \* refs: whether the interval behind timerRef is live, the render values the
  \* interval callback closed over when startTimer created it, isRunningRef
  timerLive, closure, isRunningRef,
  \* the intervals made by setInterval and not cleared by clearInterval
  liveTimers,
  \* localStorage item 'pomodoroHistory'
  stored,
  \* the state carried by the message that the render after the last handler
  \* posted to the window, if it posted one
  posted,
  \* whether the page was torn down (the cleanup of the mount effect ran)
  unmounted,
  \* whether the mount effect has run, whether the response of its
  \* fetchSettings() has arrived, and how many 'pomodoroSettingsChanged'
  \* events were delivered
  mounted, settingsFetched, settingsChanges,
  \* history variables of the session controller:
  \* the side effects of the handler that ran last: "sound" (notification
  \* tone), "store" (localStorage.setItem), "alert" (completion message)
  effects,
  \* the handler that ran last and the settings it was handed, if any
  handler,
  \* how many focus sessions ran to completion, and how many were skipped
  completedFocus, skippedFocus

musicVars ==
  <<playlist, currentIndex, isPlaying, fileName, audioSrc, audioPlaying,
    unreleasedUrls>>
musicHist == <<lastOp, before, streak, streakStart>>
pomodoroVars ==
  <<timeLeft, isRunning, isBreak, isLongBreak, selectedTaskId, tasks, history,
    sessionCount, settings, timerLive, closure, isRunningRef, liveTimers,
    stored, posted, unmounted, mounted, settingsFetched, settingsChanges>>
pomodoroHist == <<effects, handler, completedFocus, skippedFocus>>

vars == <<musicVars, musicHist, pomodoroVars, pomodoroHist>>

\* the controller state as one value (currentIndex is a 0-based array index)
MusicState ==
  [playlist |-> playlist, currentIndex |-> currentIndex, isPlaying |-> isPlaying,
   fileName |-> fileName, audioSrc |-> audioSrc, audioPlaying |-> audioPlaying]

\* playlist[i] of the source (0-based) on a TLA+ sequence (1-based)
At(list, i) == list[i + 1]

\* ------------------------------------------------- operations as functions
\* Each operation maps the state its closure sees to the state after the
\* handler's setState calls and audio element calls have taken effect.

\* loadPlaylist without setCurrentIndex(0)
loadPlaylist_KeepIndex(s, files) ==
  IF Len(files) = 0 THEN s
  ELSE [s EXCEPT !.playlist = files,
                 !.fileName = At(files, 0).name,
                 !.audioSrc = At(files, 0),
                 !.audioPlaying = FALSE,
                 !.isPlaying = FALSE]

\* loadPlaylist without setIsPlaying(false)
loadPlaylist_KeepPlaying(s, files) ==
  IF Len(files) = 0 THEN s
  ELSE [s EXCEPT !.playlist = files,
                 !.currentIndex = 0,
                 !.fileName = At(files, 0).name,
                 !.audioSrc = At(files, 0),
                 !.audioPlaying = FALSE]

\* loadPlaylist without the early return: an empty selection clears the list
loadPlaylist_NoGuard(s, files) ==
  IF Len(files) = 0
  THEN [s EXCEPT !.playlist = files, !.currentIndex = 0, !.fileName = "",
                 !.audioSrc = NoSrc, !.audioPlaying = FALSE, !.isPlaying = FALSE]
  ELSE [s EXCEPT !.playlist = files,
                 !.currentIndex = 0,
                 !.fileName = At(files, 0).name,
                 !.audioSrc = At(files, 0),
                 !.audioPlaying = FALSE,
                 !.isPlaying = FALSE]

loadPlaylist(s, files) ==
  IF Len(files) = 0 THEN s
  ELSE [s EXCEPT !.playlist = files,
                 !.currentIndex = 0,
                 !.fileName = At(files, 0).name,
                 !.audioSrc = At(files, 0),
                 !.audioPlaying = FALSE,
                 !.isPlaying = FALSE]

playCurrent(s) ==
  IF ~(s.currentIndex < Len(s.playlist)) THEN s
  ELSE LET song == At(s.playlist, s.currentIndex)
       IN [s EXCEPT !.audioSrc = song,
                    !.audioPlaying = TRUE,
                    !.fileName = song.name,
                    !.isPlaying = TRUE]

pauseMusic(s) ==
  [s EXCEPT !.audioPlaying = FALSE, !.isPlaying = FALSE]

\* audio.play() on an element without a source starts nothing
resumeMusic(s) ==
  [s EXCEPT !.audioPlaying = (s.audioSrc # NoSrc), !.isPlaying = TRUE]

\* stopMusic that only pauses
stopMusic_PauseOnly(s) ==
  [s EXCEPT !.audioPlaying = FALSE, !.isPlaying = FALSE]

stopMusic(s) ==
  [s EXCEPT !.audioPlaying = FALSE,
            !.audioSrc = NoSrc,
            !.isPlaying = FALSE,
            !.fileName = "",
            !.playlist = <<>>,
            !.currentIndex = 0]

\* nextSong that stops at the last item instead of wrapping
nextSong_NoWrap(s) ==
  IF Len(s.playlist) = 0 THEN s
  ELSE LET nextIndex == IF s.currentIndex + 1 < Len(s.playlist)
                        THEN s.currentIndex + 1 ELSE s.currentIndex
           song == At(s.playlist, nextIndex)
       IN [s EXCEPT !.currentIndex = nextIndex,
                    !.fileName = song.name,
                    !.audioSrc = song,
                    !.audioPlaying = TRUE,
                    !.isPlaying = TRUE]

nextSong(s) ==
  IF Len(s.playlist) = 0 THEN s
  ELSE LET nextIndex == (s.currentIndex + 1) % Len(s.playlist)
           song == At(s.playlist, nextIndex)
       IN [s EXCEPT !.currentIndex = nextIndex,
                    !.fileName = song.name,
                    !.audioSrc = song,
                    !.audioPlaying = TRUE,
                    !.isPlaying = TRUE]

\* prevSong that stops at the first item instead of wrapping
prevSong_NoWrap(s) ==
  IF Len(s.playlist) = 0 THEN s
  ELSE LET prevIndex == IF s.currentIndex > 0 THEN s.currentIndex - 1 ELSE 0
           song == At(s.playlist, prevIndex)
       IN [s EXCEPT !.currentIndex = prevIndex,
                    !.fileName = song.name,
                    !.audioSrc = song,
                    !.audioPlaying = TRUE,
                    !.isPlaying = TRUE]

prevSong(s) ==
  IF Len(s.playlist) = 0 THEN s
  ELSE LET prevIndex == (s.currentIndex - 1 + Len(s.playlist)) % Len(s.playlist)
           song == At(s.playlist, prevIndex)
       IN [s EXCEPT !.currentIndex = prevIndex,
                    !.fileName = song.name,
                    !.audioSrc = song,
                    !.audioPlaying = TRUE,
                    !.isPlaying = TRUE]

\* an "ended" listener that advances the way nextSong does
onEnd_Wrap(s) ==
  IF Len(s.playlist) > 0
  THEN LET nextIndex == (s.currentIndex + 1) % Len(s.playlist)
           song == At(s.playlist, nextIndex)
       IN [s EXCEPT !.currentIndex = nextIndex,
                    !.fileName = song.name,
                    !.audioSrc = song,
                    !.audioPlaying = TRUE,
                    !.isPlaying = TRUE]
  ELSE [s EXCEPT !.audioPlaying = FALSE]

\* the "ended" listener; the element has stopped by itself when it runs
onEnd(s) ==
  IF Len(s.playlist) > 0
  THEN LET nextIndex == s.currentIndex + 1
       IN IF nextIndex < Len(s.playlist)
          THEN LET song == At(s.playlist, nextIndex)
               IN [s EXCEPT !.currentIndex = nextIndex,
                            !.fileName = song.name,
                            !.audioSrc = song,
                            !.audioPlaying = TRUE,
                            !.isPlaying = TRUE]
          ELSE [s EXCEPT !.audioPlaying = FALSE, !.isPlaying = FALSE]
  ELSE [s EXCEPT !.audioPlaying = FALSE]

\* ------------------------------------------------------------------ actions
SetMusic(s) ==
  /\ playlist' = s.playlist
  /\ currentIndex' = s.currentIndex
  /\ isPlaying' = s.isPlaying
  /\ fileName' = s.fileName
  /\ audioSrc' = s.audioSrc
  /\ audioPlaying' = s.audioPlaying
  /\ UNCHANGED <<pomodoroVars, pomodoroHist>>

\* whether the operation, run in state s, reaches one of its
\* URL.createObjectURL calls
CreatesUrl(op, files, s) ==
  CASE op = "loadPlaylist" -> Len(files) > 0
    [] op = "playCurrent" -> s.currentIndex < Len(s.playlist)
    [] op \in {"nextSong", "prevSong"} -> Len(s.playlist) > 0
    [] op = "onEnd" -> Len(s.playlist) > 0 /\ s.currentIndex + 1 < Len(s.playlist)
    [] OTHER -> FALSE

\* the URLs the operation releases: the provider never calls
\* URL.revokeObjectURL
ReleasedUrls(op, files, s) == 0

\* records the object URLs made and released, the operation and the state it
\* ran in; any operation other than nextSong ends the run of consecutive
\* nextSong calls
Record(op, files) ==
  /\ LET kept == unreleasedUrls - ReleasedUrls(op, files, MusicState)
         made == IF CreatesUrl(op, files, MusicState) THEN 1 ELSE 0
     IN unreleasedUrls' = IF kept + made < MaxUrls THEN kept + made ELSE MaxUrls
  /\ lastOp' = [op |-> op, files |-> files]
  /\ before' = MusicState
  /\ IF op = "nextSong"
     THEN /\ streak' = IF streak <= MaxLen THEN streak + 1 ELSE streak
          /\ streakStart' = IF streak = 0 THEN currentIndex ELSE streakStart
     ELSE /\ streak' = 0
          /\ streakStart' = 0

LoadPlaylist ==
  \E files \in FileLists :
    /\ SetMusic(loadPlaylist(MusicState, files))
    /\ Record("loadPlaylist", files)

PlayCurrent ==
  /\ SetMusic(playCurrent(MusicState))
  /\ Record("playCurrent", <<>>)

PauseMusic ==
  /\ SetMusic(pauseMusic(MusicState))
  /\ Record("pauseMusic", <<>>)

ResumeMusic ==
  /\ SetMusic(resumeMusic(MusicState))
  /\ Record("resumeMusic", <<>>)

StopMusic ==
  /\ SetMusic(stopMusic(MusicState))
  /\ Record("stopMusic", <<>>)

NextSong ==
  /\ SetMusic(nextSong(MusicState))
  /\ Record("nextSong", <<>>)

PrevSong ==
  /\ SetMusic(prevSong(MusicState))
  /\ Record("prevSong", <<>>)

\* the element fires "ended" when it plays its source to the end
OnEnd ==
  /\ audioPlaying
  /\ SetMusic(onEnd(MusicState))
  /\ Record("onEnd", <<>>)

MusicInit ==
  /\ playlist = <<>>
  /\ currentIndex = 0
  /\ isPlaying = FALSE
  /\ fileName = ""
  /\ audioSrc = NoSrc
  /\ audioPlaying = FALSE
  /\ unreleasedUrls = 0
  /\ lastOp = [op |-> "init", files |-> <<>>]
  /\ before = [playlist |-> <<>>, currentIndex |-> 0, isPlaying |-> FALSE,
               fileName |-> "", audioSrc |-> NoSrc, audioPlaying |-> FALSE]
  /\ streak = 0
  /\ streakStart = 0

MusicNext ==
  \/ LoadPlaylist
  \/ PlayCurrent
  \/ PauseMusic
  \/ ResumeMusic
  \/ StopMusic
  \/ NextSong
  \/ PrevSong
  \/ OnEnd

\* ------------------------------------------------------ session controller
SecondsPerMinute == 60

\* the settings the page is constructed with
DefaultSettings ==
  [workDuration |-> 25, shortBreakDuration |-> 5, longBreakDuration |-> 15,
   longBreakInterval |-> 4]

\* the settings the settings store delivers (minutes; all positive)
SettingsChoices ==
  { [workDuration |-> 1, shortBreakDuration |-> 1, longBreakDuration |-> 2,
     longBreakInterval |-> 2],
    [workDuration |-> 2, shortBreakDuration |-> 2, longBreakDuration |-> 1,
     longBreakInterval |-> 1] }

\* selectedTaskId = null
NoTask == "null"
\* no interval exists, so no callback and no closure
NoClosure == [none |-> TRUE]

PomodoroState ==
  [timeLeft |-> timeLeft, isRunning |-> isRunning, isBreak |-> isBreak,
   isLongBreak |-> isLongBreak, selectedTaskId |-> selectedTaskId,
   tasks |-> tasks, history |-> history, sessionCount |-> sessionCount,
   settings |-> settings, timerLive |-> timerLive, closure |-> closure,
   liveTimers |-> liveTimers,
   stored |-> stored, unmounted |-> unmounted, effects |-> {}]

\* the values of one render, which the handlers created by it close over
Render(s) ==
  [isBreak |-> s.isBreak, isLongBreak |-> s.isLongBreak, settings |-> s.settings,
   sessionCount |-> s.sessionCount, history |-> s.history, tasks |-> s.tasks,
   selectedTaskId |-> s.selectedTaskId]

\* the session type shown for a render: isBreak ? (isLongBreak ? long : short) : focus
Mode(r) ==
  IF r.isBreak THEN (IF r.isLongBreak THEN "long_break" ELSE "short_break")
  ELSE "focus"

\* minutes of the session type of render r under r's settings
SessionMinutes(r) ==
  IF r.isBreak
  THEN (IF r.isLongBreak THEN r.settings.longBreakDuration
        ELSE r.settings.shortBreakDuration)
  ELSE r.settings.workDuration

\* tasks.find(t => t.id === selectedTaskId), then its title or the placeholder
TaskTitle(r) ==
  LET hits == { i \in 1..Len(r.tasks) : r.tasks[i].id = r.selectedTaskId }
  IN IF hits = {} THEN "No task linked"
     ELSE r.tasks[CHOOSE i \in hits : \A j \in hits : i <= j].title

\* localStorage.getItem returns null: nothing was ever stored
NoItem == [kind |-> "null"]

\* JSON.stringify of the history: the text of a list, in which a taskId that
\* is undefined is left out
Stringify(h) ==
  [kind |-> "list",
   items |-> [i \in 1..Len(h) |->
                IF h[i].taskId = NoTask
                THEN [type |-> h[i].type, duration |-> h[i].duration,
                      taskTitle |-> h[i].taskTitle]
                ELSE h[i]]]

\* JSON.parse of one stored record: a key the text lacks reads as undefined
ParseRecord(rec) ==
  IF "taskId" \in DOMAIN rec THEN rec
  ELSE [type |-> rec.type, duration |-> rec.duration, taskId |-> NoTask,
        taskTitle |-> rec.taskTitle]

\* a migration that turns every break, long ones too, into a short break
migrate_AllBreaks(rec) ==
  IF rec.type # "focus" THEN [rec EXCEPT !.type = "short_break"] ELSE rec

\* s.type === 'break' ? { ...s, type: 'short_break' } : s
migrate(rec) ==
  IF rec.type = "break" THEN [rec EXCEPT !.type = "short_break"] ELSE rec

\* a load that takes a stored value that is no array for a list of one record
loadHistory_ObjectAsList(s) ==
  IF s.stored.kind = "null" \/ s.stored.kind = "text" THEN s
  ELSE IF s.stored.kind = "list"
       THEN [s EXCEPT !.history =
                 [i \in 1..Len(s.stored.items) |->
                    migrate(ParseRecord(s.stored.items[i]))]]
       ELSE [s EXCEPT !.history =
                 <<[type |-> "focus", duration |-> 0, taskId |-> NoTask,
                    taskTitle |-> "No task linked"]>>]

\* the history part of the mount effect: nothing without a stored item,
\* nothing when JSON.parse throws (kind "text"), [] for a value that is not
\* an array (kind "object"), else the migrated list
loadHistory(s) ==
  IF s.stored.kind = "null" \/ s.stored.kind = "text" THEN s
  ELSE IF s.stored.kind = "list"
       THEN [s EXCEPT !.history =
                 [i \in 1..Len(s.stored.items) |->
                    migrate(ParseRecord(s.stored.items[i]))]]
       ELSE [s EXCEPT !.history = <<>>]

\* clearInterval(timerRef.current): the interval timerRef holds, if still
\* live, is cleared
clearTimer(s) ==
  [s EXCEPT !.liveTimers = IF s.timerLive THEN @ - 1 ELSE @,
            !.timerLive = FALSE, !.closure = NoClosure]

pauseTimer(s) ==
  [clearTimer(s) EXCEPT !.isRunning = FALSE]

\* r: the render whose startTimer runs; the interval callback keeps r's
\* completeSession; timerRef is overwritten with the new interval
startTimer(r, s) ==
  [s EXCEPT !.isRunning = TRUE, !.timerLive = TRUE, !.closure = r,
            !.liveTimers = @ + 1]

\* a toggle that starts a timer whatever isRunning says
toggleTimer_AlwaysStart(r, s) ==
  startTimer(r, s)

\* a callback that leaves the time where it is
tick_Stuck(s) ==
  s

\* a callback that counts two seconds per firing
tick_Two(s) ==
  [s EXCEPT !.timeLeft = @ - 2]

\* the interval callback's updater below completion: return prev - 1
tick(s) ==
  [s EXCEPT !.timeLeft = @ - 1]

toggleTimer(r, s) ==
  IF s.isRunning THEN pauseTimer(s) ELSE startTimer(r, s)

\* a reset that always loads the focus duration
resetTimer_Work(r, s) ==
  [pauseTimer(s) EXCEPT !.timeLeft = r.settings.workDuration * SecondsPerMinute]

resetTimer(r, s) ==
  [pauseTimer(s) EXCEPT !.timeLeft = SessionMinutes(r) * SecondsPerMinute]

switchSession(r, s) ==
  LET wasBreak == r.isBreak
  IN IF wasBreak
     THEN [s EXCEPT !.isBreak = FALSE,
                    !.isLongBreak = FALSE,
                    !.timeLeft = r.settings.workDuration * SecondsPerMinute]
     ELSE LET breakDuration == IF r.isLongBreak THEN r.settings.longBreakDuration
                               ELSE r.settings.shortBreakDuration
          IN [s EXCEPT !.isBreak = TRUE,
                       !.timeLeft = breakDuration * SecondsPerMinute]

\* completeSession testing the session count before the increment
completeSession_OldCount(r, s) ==
  LET s1 == [pauseTimer(s) EXCEPT !.effects = @ \cup {"sound"}]
      newSession == [type |-> Mode(r), duration |-> SessionMinutes(r),
                     taskId |-> r.selectedTaskId, taskTitle |-> TaskTitle(r)]
      updatedHistory == <<newSession>> \o r.history
      s2 == [s1 EXCEPT !.history = updatedHistory,
                       !.stored = Stringify(updatedHistory),
                       !.effects = @ \cup {"store"}]
      newSessionCount == r.sessionCount + 1
      s3 == IF ~r.isBreak
            THEN [s2 EXCEPT !.sessionCount = newSessionCount,
                            !.isLongBreak =
                               IF r.sessionCount % r.settings.longBreakInterval = 0
                               THEN TRUE ELSE @]
            ELSE s2
      s4 == [s3 EXCEPT !.effects = @ \cup {"alert"}]
  IN switchSession(r, s4)

\* completeSession counting every completed session, breaks included
completeSession_CountBreaks(r, s) ==
  LET s1 == [pauseTimer(s) EXCEPT !.effects = @ \cup {"sound"}]
      newSession == [type |-> Mode(r), duration |-> SessionMinutes(r),
                     taskId |-> r.selectedTaskId, taskTitle |-> TaskTitle(r)]
      updatedHistory == <<newSession>> \o r.history
      s2 == [s1 EXCEPT !.history = updatedHistory,
                       !.stored = Stringify(updatedHistory),
                       !.effects = @ \cup {"store"}]
      newSessionCount == r.sessionCount + 1
      s3 == IF ~r.isBreak
            THEN [s2 EXCEPT !.sessionCount = newSessionCount,
                            !.isLongBreak =
                               IF newSessionCount % r.settings.longBreakInterval = 0
                               THEN TRUE ELSE @]
            ELSE [s2 EXCEPT !.sessionCount = newSessionCount]
      s4 == [s3 EXCEPT !.effects = @ \cup {"alert"}]
  IN switchSession(r, s4)

\* completeSession persisting the new record alone
completeSession_StoreNew(r, s) ==
  LET s1 == [pauseTimer(s) EXCEPT !.effects = @ \cup {"sound"}]
      newSession == [type |-> Mode(r), duration |-> SessionMinutes(r),
                     taskId |-> r.selectedTaskId, taskTitle |-> TaskTitle(r)]
      updatedHistory == <<newSession>> \o r.history
      s2 == [s1 EXCEPT !.history = updatedHistory,
                       !.stored = Stringify(<<newSession>>),
                       !.effects = @ \cup {"store"}]
      newSessionCount == r.sessionCount + 1
      s3 == IF ~r.isBreak
            THEN [s2 EXCEPT !.sessionCount = newSessionCount,
                            !.isLongBreak =
                               IF newSessionCount % r.settings.longBreakInterval = 0
                               THEN TRUE ELSE @]
            ELSE s2
      s4 == [s3 EXCEPT !.effects = @ \cup {"alert"}]
  IN switchSession(r, s4)

\* r: the render whose completeSession runs (every value it reads is r's)
completeSession(r, s) ==
  LET s1 == [pauseTimer(s) EXCEPT !.effects = @ \cup {"sound"}]
      newSession == [type |-> Mode(r), duration |-> SessionMinutes(r),
                     taskId |-> r.selectedTaskId, taskTitle |-> TaskTitle(r)]
      updatedHistory == <<newSession>> \o r.history
      s2 == [s1 EXCEPT !.history = updatedHistory,
                       !.stored = Stringify(updatedHistory),
                       !.effects = @ \cup {"store"}]
      newSessionCount == r.sessionCount + 1
      s3 == IF ~r.isBreak
            THEN [s2 EXCEPT !.sessionCount = newSessionCount,
                            !.isLongBreak =
                               IF newSessionCount % r.settings.longBreakInterval = 0
                               THEN TRUE ELSE @]
            ELSE s2
      s4 == [s3 EXCEPT !.effects = @ \cup {"alert"}]
  IN switchSession(r, s4)

\* a Skip that plays the notification tone
skip_Sounding(r, s) ==
  LET s1 == [pauseTimer(s) EXCEPT !.effects = @ \cup {"sound"}]
      wasBreak == r.isBreak
  IN IF wasBreak
     THEN [s1 EXCEPT !.isLongBreak = FALSE,
                     !.timeLeft = r.settings.workDuration * SecondsPerMinute,
                     !.isBreak = FALSE]
     ELSE LET newSessionCount == r.sessionCount + 1
              isLongBreakNext == newSessionCount % r.settings.longBreakInterval = 0
              breakDuration == IF isLongBreakNext THEN r.settings.longBreakDuration
                               ELSE r.settings.shortBreakDuration
          IN [s1 EXCEPT !.timeLeft = breakDuration * SecondsPerMinute,
                        !.isLongBreak = isLongBreakNext,
                        !.sessionCount = newSessionCount,
                        !.isBreak = TRUE]

\* the Skip button's onClick
skip(r, s) ==
  LET s1 == pauseTimer(s)
      wasBreak == r.isBreak
  IN IF wasBreak
     THEN [s1 EXCEPT !.isLongBreak = FALSE,
                     !.timeLeft = r.settings.workDuration * SecondsPerMinute,
                     !.isBreak = FALSE]
     ELSE LET newSessionCount == r.sessionCount + 1
              isLongBreakNext == newSessionCount % r.settings.longBreakInterval = 0
              breakDuration == IF isLongBreakNext THEN r.settings.longBreakDuration
                               ELSE r.settings.shortBreakDuration
          IN [s1 EXCEPT !.timeLeft = breakDuration * SecondsPerMinute,
                        !.isLongBreak = isLongBreakNext,
                        !.sessionCount = newSessionCount,
                        !.isBreak = TRUE]

selectPomodoro(r, s) ==
  [pauseTimer(s) EXCEPT !.isBreak = FALSE, !.isLongBreak = FALSE,
                        !.timeLeft = r.settings.workDuration * SecondsPerMinute]

\* a short-break button that leaves the long-break flag as it is
selectShortBreak_KeepLong(r, s) ==
  [pauseTimer(s) EXCEPT !.isBreak = TRUE,
                        !.timeLeft = r.settings.shortBreakDuration * SecondsPerMinute]

selectShortBreak(r, s) ==
  [pauseTimer(s) EXCEPT !.isBreak = TRUE, !.isLongBreak = FALSE,
                        !.timeLeft = r.settings.shortBreakDuration * SecondsPerMinute]

selectLongBreak(r, s) ==
  [pauseTimer(s) EXCEPT !.isBreak = TRUE, !.isLongBreak = TRUE,
                        !.timeLeft = r.settings.longBreakDuration * SecondsPerMinute]

\* a listener that reloads the focus duration whether or not the timer runs
handleSettingsChange_Always(detail, running, s) ==
  [s EXCEPT !.settings = detail,
            !.timeLeft = detail.workDuration * SecondsPerMinute]

\* the tasks the task store delivers
TaskList ==
  <<[id |-> "t1", title |-> "Task 1"], [id |-> "t2", title |-> "Task 2"]>>

\* the values of the task <select>: '' (no task) and the ids of the tasks shown
TaskOptions(s) == {NoTask} \cup { s.tasks[i].id : i \in 1..Len(s.tasks) }

\* fetchTasks once its response is there: setTasks(data)
fetchTasks(data, s) ==
  [s EXCEPT !.tasks = data]

\* the task <select>'s onChange: setSelectedTaskId(e.target.value || null)
selectTask(id, s) ==
  [s EXCEPT !.selectedTaskId = id]

\* a cleanup that leaves the interval running
unmount_KeepTimer(s) ==
  [s EXCEPT !.unmounted = TRUE]

\* the cleanup of the mount effect: clearInterval(timerRef.current) and
\* removeEventListener
unmount(s) ==
  [clearTimer(s) EXCEPT !.unmounted = TRUE]

\* the 'pomodoroSettingsChanged' listener, and fetchSettings once its response
\* is there: running is the value of isRunningRef.current
handleSettingsChange(detail, running, s) ==
  IF ~running
  THEN [s EXCEPT !.settings = detail,
                 !.timeLeft = detail.workDuration * SecondsPerMinute]
  ELSE [s EXCEPT !.settings = detail]

\* ------------------------------------------------ session controller actions
\* the state after a handler whose writes give s; the isRunningRef effect runs
\* with the render that follows
SetPomodoro(s) ==
  /\ timeLeft' = s.timeLeft
  /\ isRunning' = s.isRunning
  /\ isBreak' = s.isBreak
  /\ isLongBreak' = s.isLongBreak
  /\ selectedTaskId' = s.selectedTaskId
  /\ tasks' = s.tasks
  /\ history' = s.history
  /\ sessionCount' = s.sessionCount
  /\ settings' = s.settings
  /\ timerLive' = s.timerLive
  /\ closure' = s.closure
  /\ liveTimers' = s.liveTimers
  /\ stored' = s.stored
  /\ unmounted' = s.unmounted
  /\ isRunningRef' = s.isRunning
  /\ effects' = s.effects
  /\ UNCHANGED <<musicVars, musicHist>>

\* no settings were handed to the handler
NoArg == [none |-> TRUE]

\* no message was posted
NoMessage == "none"

\* isBreak ? 'break' : (isRunning ? 'focus' : 'paused')
PostState(break, running) ==
  IF break THEN "break" ELSE (IF running THEN "focus" ELSE "paused")

\* the postMessage effect of the render that follows a handler: it runs with
\* the first render and whenever isBreak or isRunning differ from the render
\* before
PostEffect(first) ==
  posted' = IF first \/ isBreak' # isBreak \/ isRunning' # isRunning
            THEN PostState(isBreak', isRunning') ELSE NoMessage

\* what follows the writes of a handler: the postMessage effect, and the
\* history variables (the handler that ran, the focus sessions it completed
\* or skipped)
Did(op, arg, completed, skipped) ==
  /\ PostEffect(op = "mount")
  /\ handler' = [op |-> op, arg |-> arg]
  /\ completedFocus' = completedFocus + completed
  /\ skippedFocus' = skippedFocus + skipped

\* the page is on screen with its settings fetched: its buttons can be
\* pressed and its 'pomodoroSettingsChanged' listener is registered
Rendered == settingsFetched /\ ~unmounted

\* the mount effect: it reads the stored history (and calls fetchTasks and
\* fetchSettings, whose responses come later)
Mount ==
  /\ ~mounted
  /\ SetPomodoro(loadHistory(PomodoroState))
  /\ mounted' = TRUE
  /\ Did("mount", NoArg, 0, 0)
  /\ UNCHANGED <<settingsFetched, settingsChanges>>

\* the response of the fetchSettings() call of the mount effect; the page's
\* buttons are modelled from the moment it has arrived
FetchSettings ==
  /\ mounted /\ ~unmounted
  /\ ~settingsFetched
  /\ \E data \in SettingsChoices :
       /\ SetPomodoro(handleSettingsChange(data, isRunningRef, PomodoroState))
       /\ Did("fetchSettings", data, 0, 0)
  /\ settingsFetched' = TRUE
  /\ UNCHANGED <<mounted, settingsChanges>>

HandleSettingsChange ==
  /\ Rendered
  /\ settingsChanges < MaxSettingsChanges
  /\ \E detail \in SettingsChoices :
       /\ SetPomodoro(handleSettingsChange(detail, isRunningRef, PomodoroState))
       /\ Did("handleSettingsChange", detail, 0, 0)
  /\ settingsChanges' = settingsChanges + 1
  /\ UNCHANGED <<mounted, settingsFetched>>

ToggleTimer ==
  /\ Rendered
  /\ SetPomodoro(toggleTimer(Render(PomodoroState), PomodoroState))
  /\ Did(IF isRunning THEN "pauseTimer" ELSE "startTimer", NoArg, 0, 0)
  /\ UNCHANGED <<mounted, settingsFetched, settingsChanges>>

\* one firing of the interval callback: setTimeLeft(prev => ...) with prev the
\* current timeLeft; completeSession is the one of the closure
TickDown ==
  /\ liveTimers > 0
  /\ timeLeft > 1
  /\ SetPomodoro(tick(PomodoroState))
  /\ Did("tick", NoArg, 0, 0)
  /\ UNCHANGED <<mounted, settingsFetched, settingsChanges>>

\* The updater calls completeSession, whose switchSession calls setTimeLeft,
\* and then returns 0: which of the two writes of timeLeft is applied last
\* depends on whether React runs the updater eagerly or while rendering.
\* cap: the history length up to which completions are explored
CompleteWithin(cap) ==
  /\ liveTimers > 0
  /\ timeLeft <= 1
  /\ Len(closure.history) < cap
  /\ closure.isBreak \/ closure.sessionCount < MaxSessions
  /\ LET s == completeSession(closure, PomodoroState)
     IN \E last \in {0, s.timeLeft} :
          SetPomodoro([s EXCEPT !.timeLeft = last])
  /\ Did("completeSession", NoArg, IF closure.isBreak THEN 0 ELSE 1, 0)
  /\ UNCHANGED <<mounted, settingsFetched, settingsChanges>>

TickComplete == CompleteWithin(MaxHistory)

\* the same firing, explored while settings events are delivered
TickCompleteEarly == CompleteWithin(MaxSettingsHistory)

ResetTimer ==
  /\ Rendered
  /\ SetPomodoro(resetTimer(Render(PomodoroState), PomodoroState))
  /\ Did("resetTimer", NoArg, 0, 0)
  /\ UNCHANGED <<mounted, settingsFetched, settingsChanges>>

Skip ==
  /\ Rendered
  /\ isBreak \/ sessionCount < MaxSessions
  /\ SetPomodoro(skip(Render(PomodoroState), PomodoroState))
  /\ Did("skip", NoArg, 0, IF isBreak THEN 0 ELSE 1)
  /\ UNCHANGED <<mounted, settingsFetched, settingsChanges>>

SelectPomodoro ==
  /\ Rendered
  /\ SetPomodoro(selectPomodoro(Render(PomodoroState), PomodoroState))
  /\ Did("selectPomodoro", NoArg, 0, 0)
  /\ UNCHANGED <<mounted, settingsFetched, settingsChanges>>

SelectShortBreak ==
  /\ Rendered
  /\ SetPomodoro(selectShortBreak(Render(PomodoroState), PomodoroState))
  /\ Did("selectShortBreak", NoArg, 0, 0)
  /\ UNCHANGED <<mounted, settingsFetched, settingsChanges>>

SelectLongBreak ==
  /\ Rendered
  /\ SetPomodoro(selectLongBreak(Render(PomodoroState), PomodoroState))
  /\ Did("selectLongBreak", NoArg, 0, 0)
  /\ UNCHANGED <<mounted, settingsFetched, settingsChanges>>

\* the response of the fetchTasks() call of the mount effect
FetchTasks ==
  /\ mounted /\ ~unmounted
  /\ tasks = <<>>
  /\ SetPomodoro(fetchTasks(TaskList, PomodoroState))
  /\ Did("fetchTasks", NoArg, 0, 0)
  /\ UNCHANGED <<mounted, settingsFetched, settingsChanges>>

SelectTask ==
  /\ Rendered
  /\ \E id \in TaskOptions(PomodoroState) :
       SetPomodoro(selectTask(id, PomodoroState))
  /\ Did("selectTask", NoArg, 0, 0)
  /\ UNCHANGED <<mounted, settingsFetched, settingsChanges>>

\* the page is left: React runs the cleanup of the mount effect
Unmount ==
  /\ mounted /\ ~unmounted
  /\ SetPomodoro(unmount(PomodoroState))
  /\ Did("unmount", NoArg, 0, 0)
  /\ UNCHANGED <<mounted, settingsFetched, settingsChanges>>

\* the first render, whatever the storage holds
PomodoroFirstRender ==
  /\ timeLeft = 25 * SecondsPerMinute
  /\ isRunning = FALSE
  /\ isBreak = FALSE
  /\ isLongBreak = FALSE
  /\ selectedTaskId = NoTask
  /\ tasks = <<>>
  /\ history = <<>>
  /\ sessionCount = 0
  /\ settings = DefaultSettings
  /\ timerLive = FALSE
  /\ closure = NoClosure
  /\ isRunningRef = FALSE
  /\ liveTimers = 0
  /\ posted = NoMessage
  /\ unmounted = FALSE
  /\ mounted = FALSE
  /\ settingsFetched = FALSE
  /\ settingsChanges = 0
  /\ effects = {}
  /\ handler = [op |-> "init", arg |-> NoArg]
  /\ completedFocus = 0
  /\ skippedFocus = 0

\* the page opened in a browser that never stored a history
PomodoroInit ==
  /\ PomodoroFirstRender
  /\ stored = NoItem

\* the page's handlers with the settings store silent after the first fetch
PomodoroNext ==
  \/ Mount
  \/ FetchSettings
  \/ ToggleTimer
  \/ TickDown
  \/ TickComplete
  \/ ResetTimer
  \/ Skip
  \/ SelectPomodoro
  \/ SelectShortBreak
  \/ SelectLongBreak

Init == MusicInit /\ PomodoroInit

\* the playback controller alone
MusicSpec == Init /\ [][MusicNext]_vars

\* the session controller alone, settings fixed once fetched
PomodoroSpec == Init /\ [][PomodoroNext]_vars

\* the session controller with 'pomodoroSettingsChanged' events; the breaks are
\* entered by completion and by the mode buttons (Skip is explored in
\* PomodoroSpec)
SettingsNext ==
  \/ Mount
  \/ FetchSettings
  \/ HandleSettingsChange
  \/ ToggleTimer
  \/ TickDown
  \/ TickCompleteEarly
  \/ ResetTimer
  \/ SelectPomodoro
  \/ SelectShortBreak
  \/ SelectLongBreak

SettingsSpec == Init /\ [][SettingsNext]_vars

\* the records a stored history is made of: one of the legacy format, whose
\* breaks had the type "break", and two of the current format
StoredRecords ==
  { [type |-> "break", duration |-> 5, taskTitle |-> "No task linked"],
    [type |-> "focus", duration |-> 25, taskId |-> "t1", taskTitle |-> "Task 1"],
    [type |-> "long_break", duration |-> 15, taskTitle |-> "No task linked"] }

\* what localStorage can hold under 'pomodoroHistory' when the page is
\* opened: nothing, a text that is no JSON, the JSON of a value that is no
\* array, or the JSON of a list of records
StoredChoices ==
  {NoItem, [kind |-> "text"], [kind |-> "object"]}
    \cup { [kind |-> "list", items |-> l] :
             l \in UNION { [1..n -> StoredRecords] : n \in 0..MaxStored } }

LoadInit ==
  /\ MusicInit
  /\ PomodoroFirstRender
  /\ stored \in StoredChoices

\* the page opened over a stored history and driven by its timer
LoadNext ==
  \/ Mount
  \/ FetchSettings
  \/ ToggleTimer
  \/ TickDown
  \/ TickComplete

LoadSpec == LoadInit /\ [][LoadNext]_vars

\* stored values the history load cannot use
MalformedChoices == {[kind |-> "text"], [kind |-> "object"]}

MalformedInit ==
  /\ MusicInit
  /\ PomodoroFirstRender
  /\ stored \in MalformedChoices

\* the page opened over a malformed stored history, all its handlers at work
MalformedSpec == MalformedInit /\ [][PomodoroNext]_vars

\* the page driven by its timer until it is left
TeardownNext ==
  \/ LoadNext
  \/ Unmount

TeardownSpec == Init /\ [][TeardownNext]_vars

\* the timer-driven page with its task list, its task selector and
\* 'pomodoroSettingsChanged' events
TaskNext ==
  \/ Mount
  \/ FetchSettings
  \/ FetchTasks
  \/ SelectTask
  \/ HandleSettingsChange
  \/ ToggleTimer
  \/ TickDown
  \/ TickCompleteEarly

TaskSpec == Init /\ [][TaskNext]_vars

\* the Start button: toggleTimer pressed while the timer is not running
Start ==
  /\ ~isRunning
  /\ ToggleTimer

\* the page whose sessions, once started, are left alone
AloneNext ==
  \/ Mount
  \/ FetchSettings
  \/ Start
  \/ TickDown
  \/ TickComplete

\* setInterval keeps calling the callback of a live interval
AloneSpec ==
  /\ Init
  /\ [][AloneNext]_vars
  /\ WF_vars(TickDown)
  /\ WF_vars(TickComplete)

\* ------------------------------------------------ playback controller claims
Empty(s) == Len(s.playlist) = 0
AtLast(s) == ~Empty(s) /\ s.currentIndex = Len(s.playlist) - 1
\* the part of the state the playlist claims speak about
Core(s) == <<s.playlist, s.currentIndex, s.isPlaying>>
Shown(s) == <<s.playlist, s.currentIndex, s.isPlaying, s.fileName>>

\* C1: whenever the playlist is non-empty, currentIndex is a valid index into
\* it (0 <= currentIndex < playlist.length), after any sequence of operations
\* and end-of-track events.
C1_IndexValid ==
  Len(playlist) > 0 => (0 <= currentIndex /\ currentIndex < Len(playlist))

\* a shorter playlist was loaded while the index pointed past its end
C1_Witness ==
  /\ lastOp.op = "loadPlaylist"
  /\ Len(lastOp.files) > 0
  /\ before.currentIndex >= Len(lastOp.files)
  /\ playlist = lastOp.files

\* C2: at the last track an end-of-track event sets isPlaying=false and leaves
\* currentIndex unchanged, whereas manual next() sets currentIndex to 0 and
\* isPlaying=true.
C2_LastTrackAsymmetry ==
  /\ (lastOp.op = "onEnd" /\ AtLast(before))
        => (~isPlaying /\ currentIndex = before.currentIndex
            /\ playlist = before.playlist)
  /\ (lastOp.op = "nextSong" /\ AtLast(before))
        => (isPlaying /\ currentIndex = 0 /\ playlist = before.playlist)
  /\ AtLast(MusicState)
        => /\ ~onEnd(MusicState).isPlaying
           /\ onEnd(MusicState).currentIndex = currentIndex
           /\ nextSong(MusicState).isPlaying
           /\ nextSong(MusicState).currentIndex = 0

\* the last of several tracks played to its end
C2_Witness ==
  /\ lastOp.op = "onEnd"
  /\ AtLast(before)
  /\ Len(before.playlist) > 1
  /\ before.isPlaying

\* C3 as claimed: previous() after next(), and next() after previous(), give
\* back the state (items, currentIndex, isPlaying) they started from.
C3_InverseExact ==
  /\ lastOp.op = "nextSong" => Core(prevSong(MusicState)) = Core(before)
  /\ lastOp.op = "prevSong" => Core(nextSong(MusicState)) = Core(before)

\* C3 amended: previous() after next(), and next() after previous(), give back
\* the items, the currentIndex and the display name they started from; on a
\* non-empty playlist they leave isPlaying = true, so isPlaying is given back
\* exactly when the playlist is empty or the start state was playing.
C3_InverseUpToPlaying ==
  /\ lastOp.op = "nextSong" =>
       LET t == prevSong(MusicState)
       IN /\ t.playlist = before.playlist
          /\ t.currentIndex = before.currentIndex
          /\ t.fileName = before.fileName
          /\ ~Empty(before) => t.isPlaying
          /\ Empty(before) => Shown(t) = Shown(before)
  /\ lastOp.op = "prevSong" =>
       LET t == nextSong(MusicState)
       IN /\ t.playlist = before.playlist
          /\ t.currentIndex = before.currentIndex
          /\ t.fileName = before.fileName
          /\ ~Empty(before) => t.isPlaying
          /\ Empty(before) => Shown(t) = Shown(before)

\* next() ran on a paused playlist of several items, from its last item
C3_Witness ==
  /\ lastOp.op = "nextSong"
  /\ AtLast(before)
  /\ Len(before.playlist) > 1
  /\ ~before.isPlaying

\* C4: on a non-empty playlist of length n, n consecutive next() calls bring
\* currentIndex back to where the run started, and 1..n-1 calls do not.
C4_NextCycle ==
  (Len(playlist) > 0 /\ streak >= 1 /\ streak <= Len(playlist))
     => (currentIndex = streakStart <=> streak = Len(playlist))

\* a full cycle over a playlist of three or more items, started off index 0
C4_Witness ==
  /\ Len(playlist) >= 3
  /\ streak = Len(playlist)
  /\ streakStart > 0
  /\ currentIndex = streakStart

\* C5: loadPlaylist with a non-empty list, in any state, replaces the playlist
\* by exactly the given items in order, sets currentIndex to 0 and the display
\* name to the first item's name, and leaves isPlaying=false with the first
\* item prepared in the audio element but not started.
C5_LoadReplaces ==
  (lastOp.op = "loadPlaylist" /\ Len(lastOp.files) > 0)
     => /\ playlist = lastOp.files
        /\ currentIndex = 0
        /\ fileName = lastOp.files[1].name
        /\ ~isPlaying
        /\ audioSrc = lastOp.files[1]
        /\ ~audioPlaying

\* a different playlist was loaded while another one was playing
C5_Witness ==
  /\ lastOp.op = "loadPlaylist"
  /\ Len(lastOp.files) > 0
  /\ before.isPlaying /\ before.audioPlaying
  /\ before.currentIndex > 0
  /\ before.playlist # lastOp.files
  /\ playlist = lastOp.files

\* C6: loadPlaylist with an empty list in any state, and playCurrent, next and
\* previous on an empty playlist, leave playlist, currentIndex, isPlaying and
\* the display name unchanged.
C6_NothingToActOn ==
  /\ (lastOp.op = "loadPlaylist" /\ Len(lastOp.files) = 0)
        => Shown(MusicState) = Shown(before)
  /\ (lastOp.op \in {"playCurrent", "nextSong", "prevSong"} /\ Empty(before))
        => Shown(MusicState) = Shown(before)

\* an empty selection arrived while a playlist was playing
C6_Witness ==
  /\ lastOp.op = "loadPlaylist"
  /\ Len(lastOp.files) = 0
  /\ ~Empty(before)
  /\ before.isPlaying
  /\ before.currentIndex > 0

\* C7: stop() is a full teardown from any state: the playlist is empty,
\* currentIndex is 0, the display name is empty, isPlaying is false and the
\* audio element is halted with no source.
C7_StopTearsDown ==
  lastOp.op = "stopMusic"
     => /\ playlist = <<>>
        /\ currentIndex = 0
        /\ fileName = ""
        /\ ~isPlaying
        /\ audioSrc = NoSrc
        /\ ~audioPlaying

\* stop() ran while a track other than the first was playing
C7_Witness ==
  /\ lastOp.op = "stopMusic"
  /\ before.isPlaying /\ before.audioPlaying
  /\ before.currentIndex > 0
  /\ playlist = <<>>

\* C8: pause() and resume() are no-ops when nothing is loaded: on an empty
\* playlist neither changes isPlaying, so isPlaying=true is never reachable
\* while the playlist is empty.
C8_PauseResumeNoOpWhenEmpty ==
  /\ (lastOp.op \in {"pauseMusic", "resumeMusic"} /\ Empty(before))
        => isPlaying = before.isPlaying
  /\ Empty(MusicState) => ~isPlaying

\* ------------------------------------------------ session controller claims
\* number of focus records in a history
FocusCount(h) == Cardinality({ i \in 1..Len(h) : h[i].type = "focus" })

\* completeSession has just run for a focus session
JustCompletedFocus ==
  /\ "alert" \in effects
  /\ Len(history) > 0
  /\ history[1].type = "focus"

\* the timer's next firing completes the session
CompletionDue == timerLive /\ timeLeft <= 1

\* C9 as claimed: with fixed settings, after completeSession in focus mode the
\* break is long_break iff the incremented sessionCount is a multiple of
\* longBreakInterval; counting completions from sessionCount 0, the break is
\* long after exactly longBreakInterval of them and short after one fewer or
\* one more.
C9_LongBreakRule ==
  JustCompletedFocus =>
    /\ isBreak
    /\ isLongBreak <=> (sessionCount % settings.longBreakInterval = 0)
    /\ sessionCount = FocusCount(history) =>
         /\ FocusCount(history) = settings.longBreakInterval => isLongBreak
         /\ FocusCount(history) = settings.longBreakInterval - 1 => ~isLongBreak
         /\ FocusCount(history) = settings.longBreakInterval + 1 => ~isLongBreak

\* C9 amended: as claimed, except that the break after one more completion is
\* short only when longBreakInterval is at least 2 (with longBreakInterval = 1
\* every break is long).
C9_LongBreakRuleFrom2 ==
  JustCompletedFocus =>
    /\ isBreak
    /\ isLongBreak <=> (sessionCount % settings.longBreakInterval = 0)
    /\ sessionCount = FocusCount(history) =>
         /\ FocusCount(history) = settings.longBreakInterval => isLongBreak
         /\ FocusCount(history) = settings.longBreakInterval - 1 => ~isLongBreak
         /\ (FocusCount(history) = settings.longBreakInterval + 1
             /\ settings.longBreakInterval >= 2) => ~isLongBreak
         /\ settings.longBreakInterval = 1 => isLongBreak

\* one focus session more than longBreakInterval >= 2 has just completed
C9_Witness ==
  /\ JustCompletedFocus
  /\ settings.longBreakInterval >= 2
  /\ FocusCount(history) = settings.longBreakInterval + 1
  /\ sessionCount = FocusCount(history)
  /\ isBreak /\ ~isLongBreak

\* C10: completeSession loads the duration of the mode it switches to, using
\* the long/short decision it has just made: long_break with
\* longBreakMinutes*60 when completing a focus session makes sessionCount a
\* multiple of longBreakInterval, otherwise short_break with
\* shortBreakMinutes*60, and focus with workMinutes*60 after any break.
C10_LoadsNewModeDuration ==
  CompletionDue =>
    LET s == completeSession(closure, PomodoroState)
    IN IF ~isBreak
       THEN IF s.sessionCount % settings.longBreakInterval = 0
            THEN /\ Mode(s) = "long_break"
                 /\ s.timeLeft = settings.longBreakDuration * SecondsPerMinute
            ELSE /\ Mode(s) = "short_break"
                 /\ s.timeLeft = settings.shortBreakDuration * SecondsPerMinute
       ELSE /\ Mode(s) = "focus"
            /\ s.timeLeft = settings.workDuration * SecondsPerMinute

\* C11: skip, in any mode and whether running or paused, appends no history
\* record, does not rewrite the persisted history and does not play the
\* notification tone; afterwards the timer is paused in the complementary
\* mode (a break after focus, focus after a break).
C11_SkipSilent ==
  [][Skip =>
       /\ history' = history
       /\ stored' = stored
       /\ effects' \cap {"sound", "store"} = {}
       /\ ~isRunning' /\ ~timerLive'
       /\ isBreak' = ~isBreak
       /\ isBreak => ~isLongBreak']_vars

\* a focus session was skipped after sessions had been recorded
C11_Witness ==
  /\ handler.op = "skip"
  /\ isBreak /\ ~isRunning
  /\ Len(history) > 0
  /\ stored = Stringify(history)
  /\ effects = {}

\* C12: from any reachable state, skip and completeSession select the same
\* next mode: both go from a break to focus, and from focus both go to
\* long_break exactly when sessionCount+1 is a multiple of longBreakInterval
\* and to short_break otherwise.  (completeSession is the one the running
\* timer is about to call.)
C12_SameNextMode ==
  CompletionDue =>
    LET c == completeSession(closure, PomodoroState)
        k == skip(Render(PomodoroState), PomodoroState)
        breakDue == IF (sessionCount + 1) % settings.longBreakInterval = 0
                    THEN "long_break" ELSE "short_break"
    IN /\ Mode(c) = Mode(k)
       /\ isBreak => Mode(c) = "focus"
       /\ ~isBreak => Mode(c) = breakDue

\* C13 as claimed: sessionCount is incremented exactly once per completed
\* focus session and by nothing else: in every reachable state it equals the
\* number of focus sessions completed since page start, which is the number
\* of focus records this page session added to history (skip, reset, mode
\* selection and break completion leave it unchanged).
C13_CountsCompletedFocus ==
  /\ completedFocus = FocusCount(history)
  /\ sessionCount = completedFocus

\* C13 amended: sessionCount is incremented exactly once per completed focus
\* session and once per skipped focus session, and by nothing else: in every
\* reachable state it equals the number of focus records this page session
\* added to history plus the number of focus sessions left by Skip.
C13_CountsCompletedAndSkipped ==
  /\ completedFocus = FocusCount(history)
  /\ sessionCount = completedFocus + skippedFocus

\* a break has just run to completion after a completed and a skipped focus
\* session
C13_Witness ==
  /\ handler.op = "completeSession"
  /\ ~isBreak
  /\ completedFocus > 0
  /\ skippedFocus > 0
  /\ sessionCount = completedFocus + skippedFocus

\* seconds of a full session of the given mode under the given settings
FullSeconds(mode, st) ==
  CASE mode = "focus" -> st.workDuration * SecondsPerMinute
    [] mode = "short_break" -> st.shortBreakDuration * SecondsPerMinute
    [] mode = "long_break" -> st.longBreakDuration * SecondsPerMinute

\* C14: reset, from any state, leaves the timer paused with timeLeftSeconds
\* equal to the full duration of the current mode under the current settings
\* and leaves mode, sessionCount and history unchanged; in particular, start
\* followed immediately by reset in the initial focus mode gives
\* timeLeftSeconds = workMinutes*60 and isRunning = false.
C14_ResetRestoresFull ==
  [][ResetTimer =>
       /\ ~isRunning' /\ ~timerLive'
       /\ timeLeft' = FullSeconds(Mode(PomodoroState), settings)
       /\ isBreak' = isBreak /\ isLongBreak' = isLongBreak
       /\ sessionCount' = sessionCount
       /\ history' = history /\ stored' = stored
       /\ settings' = settings
       /\ (handler.op = "startTimer" /\ ~isBreak)
            => (timeLeft' = settings.workDuration * SecondsPerMinute
                /\ ~isRunning')]_vars

\* reset has run in a long break whose duration a settings event had changed
C14_Witness ==
  /\ handler.op = "resetTimer"
  /\ settingsChanges > 0
  /\ isBreak /\ isLongBreak
  /\ ~isRunning
  /\ timeLeft = settings.longBreakDuration * SecondsPerMinute
  /\ timeLeft # settings.workDuration * SecondsPerMinute

\* the state after an explicit selection of the given mode
Selected(mode) ==
  /\ ~isRunning' /\ ~timerLive'
  /\ Mode(PomodoroState)' = mode
  /\ timeLeft' = FullSeconds(mode, settings)
  /\ settings' = settings
  /\ sessionCount' = sessionCount
  /\ history' = history /\ stored' = stored

\* C15: explicit mode selection (focus, short break, long break), from any
\* state, pauses the timer, sets the mode to the selected one and
\* timeLeftSeconds to that mode's full duration under the current settings,
\* and changes neither sessionCount nor history.
C15_SelectForcesMode ==
  [][/\ SelectPomodoro => Selected("focus")
     /\ SelectShortBreak => Selected("short_break")
     /\ SelectLongBreak => Selected("long_break")]_vars

\* the short break was selected after a session had been counted and recorded
C15_Witness ==
  /\ handler.op = "selectShortBreak"
  /\ Mode(PomodoroState) = "short_break"
  /\ ~isRunning
  /\ timeLeft = settings.shortBreakDuration * SecondsPerMinute
  /\ sessionCount > 0
  /\ Len(history) > 0

\* C16: when new settings arrive (settings-changed notification or settings
\* fetch) while the timer is not running, timeLeftSeconds becomes the full
\* duration of the current mode under the new settings: workMinutes*60 in
\* focus, shortBreakMinutes*60 in short_break, longBreakMinutes*60 in
\* long_break.
C16_RecomputesCurrentMode ==
  (handler.op \in {"handleSettingsChange", "fetchSettings"} /\ ~isRunning)
    => /\ settings = handler.arg
       /\ timeLeft = FullSeconds(Mode(PomodoroState), settings)

\* C17: when new settings arrive while the timer is running, settings are
\* replaced but the running session is not interrupted: timeLeftSeconds,
\* isRunning and mode are unchanged by the update, and the countdown
\* continues from the same value (the interval stays live).
C17_RunningSessionKept ==
  [][(HandleSettingsChange /\ isRunning) =>
       /\ settings' = handler'.arg
       /\ timeLeft' = timeLeft
       /\ isRunning' /\ timerLive' /\ timerLive
       /\ closure' = closure
       /\ isBreak' = isBreak /\ isLongBreak' = isLongBreak
       /\ sessionCount' = sessionCount
       /\ history' = history]_vars

\* other settings arrived in the middle of a running countdown
C17_Witness ==
  /\ handler.op = "handleSettingsChange"
  /\ isRunning /\ timerLive
  /\ settings = handler.arg
  /\ closure.settings # settings
  /\ timeLeft > 1
  /\ timeLeft # settings.workDuration * SecondsPerMinute
  /\ timeLeft # FullSeconds(Mode(PomodoroState), settings)

\* the sequence h without its k-th element
Without(h, k) == [i \in 1..(Len(h) - 1) |-> IF i < k THEN h[i] ELSE h[i + 1]]

\* C18: history is append-only: each completeSession adds exactly one record,
\* whose type is the mode just completed and whose duration is that mode's
\* configured minutes; every record already in history stays present,
\* unmodified and in the same relative order; and no other operation (start,
\* pause, reset, skip, mode selection, settings update, tick below
\* completion) changes history.
C18_AppendOnly ==
  [][/\ CompleteWithin(MaxHistory) =>
          /\ Len(history') = Len(history) + 1
          /\ \E k \in 1..Len(history') :
               /\ Without(history', k) = history
               /\ history'[k].type = Mode(PomodoroState)
               /\ history'[k].duration * SecondsPerMinute
                    = FullSeconds(Mode(PomodoroState), settings)
     /\ ~CompleteWithin(MaxHistory) => history' = history]_vars

\* C19: after every completeSession the persisted history is the whole
\* in-memory history: the stored item is overwritten in full and reads back
\* as the in-memory list, including the record just added and every record
\* loaded at startup.
C19_StoredIsWholeHistory ==
  handler.op = "completeSession" =>
    /\ "store" \in effects
    /\ stored.kind = "list"
    /\ Len(stored.items) = Len(history)
    /\ \A i \in 1..Len(history) : ParseRecord(stored.items[i]) = history[i]

\* a session completed on top of a loaded history whose oldest record is a
\* migrated legacy break
C19_Witness ==
  /\ handler.op = "completeSession"
  /\ Len(history) > 2
  /\ history[Len(history)].type = "short_break"
  /\ history[Len(history)].duration = 5
  /\ stored.kind = "list"
  /\ Len(stored.items) = Len(history)
  /\ stored.items[Len(history)].type = "short_break"

\* C20: loading persisted history migrates legacy records: for every
\* persisted list, the loaded history has the same length and order, each
\* record whose type is "break" is loaded with type "short_break" and all its
\* other fields unaltered, and every record with another type is loaded
\* unchanged.
C20_MigratesLegacyBreaks ==
  (handler.op = "mount" /\ stored.kind = "list") =>
    /\ Len(history) = Len(stored.items)
    /\ \A i \in 1..Len(history) :
         LET p == stored.items[i]
             q == history[i]
         IN /\ q.type = IF p.type = "break" THEN "short_break" ELSE p.type
            /\ q.duration = p.duration
            /\ q.taskTitle = p.taskTitle
            /\ q.taskId = IF "taskId" \in DOMAIN p THEN p.taskId ELSE NoTask

\* a stored list of a legacy break followed by a focus record has been loaded
C20_Witness ==
  /\ handler.op = "mount"
  /\ stored.kind = "list"
  /\ Len(stored.items) = 2
  /\ stored.items[1].type = "break"
  /\ stored.items[2].type = "focus"
  /\ Len(history) = 2
  /\ history[1].type = "short_break"
  /\ history[2] = stored.items[2]

\* C21: malformed persisted history is never fatal: if the stored value
\* cannot be parsed or is not a list, the page starts with an empty history
\* and every controller operation remains available, and the malformed value
\* is discarded (replaced in full) by the next completed session.
C21_MalformedNotFatal ==
  /\ (mounted /\ stored \in MalformedChoices) => history = <<>>
  /\ (mounted /\ history = <<>>) => stored \in MalformedChoices
  /\ handler.op = "completeSession" =>
       /\ stored.kind = "list"
       /\ Len(stored.items) = Len(history)
       /\ \A i \in 1..Len(history) : ParseRecord(stored.items[i]) = history[i]
  /\ (settingsFetched /\ stored \in MalformedChoices) =>
       /\ ENABLED ToggleTimer
       /\ ENABLED ResetTimer
       /\ ENABLED SelectPomodoro
       /\ ENABLED SelectShortBreak
       /\ ENABLED SelectLongBreak
       /\ (isBreak \/ sessionCount < MaxSessions) => ENABLED Skip
       /\ (timerLive /\ timeLeft > 1) => ENABLED TickDown
  /\ ~mounted => ENABLED Mount
  /\ (mounted /\ ~settingsFetched) => ENABLED FetchSettings
  /\ (timerLive /\ timeLeft <= 1 /\ stored \in MalformedChoices
        /\ (isBreak \/ sessionCount < MaxSessions)) => ENABLED TickComplete

\* the first session completed over a malformed stored value
C21_Witness ==
  /\ handler.op = "completeSession"
  /\ Len(history) = 1
  /\ stored = Stringify(history)

\* C22: every change of mode among focus, short_break and long_break (by
\* completion, skip or explicit selection, including short_break to
\* long_break and back) causes a state message to be broadcast, and every
\* broadcast message carries one of the states focus, break, paused.
C22_ModeChangeBroadcast ==
  [][/\ Mode(PomodoroState)' # Mode(PomodoroState) => posted' # NoMessage
     /\ posted' \in {NoMessage, "focus", "break", "paused"}]_vars

\* C23: page teardown cancels the pending countdown timer: after the page is
\* unmounted, in any state including a running countdown, no further tick
\* fires and no state (timeLeftSeconds, mode, sessionCount, history,
\* persisted history) changes.
C23_TeardownCancelsTimer ==
  [][/\ unmounted' => ~timerLive'
     /\ unmounted =>
          UNCHANGED <<timeLeft, isBreak, isLongBreak, sessionCount, history,
                      stored>>]_vars

\* the page was left in the middle of a running countdown
C23_Witness ==
  /\ handler.op = "unmount"
  /\ unmounted
  /\ isRunning
  /\ ~timerLive
  /\ timeLeft > 1
  /\ Len(history) > 0

\* C25: when a tick takes a running countdown to zero, the session is
\* completed exactly once (one history record added, timer paused, mode
\* switched to the complementary mode) and the state left behind has
\* timeLeftSeconds equal to the full duration of the new mode, ready to be
\* started, without auto-starting.
C25_CompletionLeavesFullDuration ==
  [][TickComplete =>
       /\ Len(history') = Len(history) + 1
       /\ ~isRunning' /\ ~timerLive'
       /\ isBreak' = ~isBreak
       /\ timeLeft' = FullSeconds(Mode(PomodoroState)', settings')]_vars

\* the full durations the given settings can load
FullDurations(st) ==
  { FullSeconds(m, st) : m \in {"focus", "short_break", "long_break"} }

\* C26: timeLeftSeconds is decremented only by ticks and only while running:
\* each tick that does not complete the session lowers it by exactly 1, no
\* tick can fire while the timer is paused, and it is never negative in any
\* reachable state (settings being positive integers).  Any other step that
\* lowers it loads a full duration or completes the session.
C26_CountdownByTicks ==
  [][/\ TickDown => (isRunning /\ isRunning' /\ timeLeft' = timeLeft - 1)
     /\ ~isRunning => (~timerLive /\ ~ENABLED TickDown /\ ~ENABLED TickComplete)
     /\ timeLeft' < timeLeft =>
          \/ TickDown
          \/ TickCompleteEarly
          \/ timeLeft' \in FullDurations(settings')
     /\ timeLeft >= 0 /\ timeLeft' >= 0]_vars

\* a running break has been counted down to its last second
C26_Witness ==
  /\ handler.op = "tick"
  /\ isRunning /\ timerLive
  /\ isBreak
  /\ timeLeft = 1

\* C27: in every reachable state at most one countdown timer is live, and one
\* is live exactly when isRunning is true: start while running creates no
\* second timer, and after pause, reset, skip, explicit mode selection or
\* session completion no tick changes the state until the next start.
C27_SingleLiveTimer ==
  /\ liveTimers <= 1
  /\ (liveTimers = 1) <=> isRunning
  /\ timerLive <=> isRunning
  /\ handler.op \in {"pauseTimer", "resetTimer", "skip", "selectPomodoro",
                     "selectShortBreak", "selectLongBreak", "completeSession"}
       => (liveTimers = 0 /\ ~ENABLED TickDown /\ ~ENABLED TickComplete)

\* a command other than pause has left the timer stopped, sessions recorded
C27_Witness ==
  /\ handler.op \in {"resetTimer", "skip", "selectLongBreak"}
  /\ liveTimers = 0
  /\ ~isRunning
  /\ Len(history) > 0

\* C28: the history record appended when a countdown completes describes the
\* state at the moment of completion: its task link is the task selected at
\* that moment (title taken from the task list known at that moment, or no
\* task if none is selected) and its duration comes from the settings in
\* force at that moment, even when the selection, the task list or the
\* settings changed while the countdown was running.
C28_RecordOfCompletionMoment ==
  [][TickCompleteEarly =>
       /\ Len(history') = Len(history) + 1
       /\ history'[1].taskId = selectedTaskId
       /\ history'[1].taskTitle = TaskTitle(Render(PomodoroState))
       /\ history'[1].duration * SecondsPerMinute
            = FullSeconds(Mode(PomodoroState), settings)]_vars

\* C29: every started session eventually completes if left alone: from any
\* state with isRunning true, if ticks keep firing and no user command,
\* settings update or teardown occurs, the system eventually reaches a state
\* with isRunning false in the complementary mode with one more history
\* record, and then stays paused until the next start.  (Sessions are
\* followed up to MaxHistory records and MaxSessions counted sessions.)
C29_StartedSessionCompletes ==
  /\ \A n \in 0..(MaxHistory - 1) : \A b \in BOOLEAN :
       (/\ isRunning
        /\ Len(history) = n
        /\ isBreak = b
        /\ (isBreak \/ sessionCount < MaxSessions))
         ~> (~isRunning /\ Len(history) = n + 1 /\ isBreak = ~b)
  /\ [][(~isRunning /\ isRunning') => Start]_vars
  /\ [][(~isRunning /\ ~isRunning') =>
          UNCHANGED <<timeLeft, isBreak, isLongBreak, history>> \/ FetchSettings]_vars

\* a second session has run to its end
C29_Witness ==
  /\ handler.op = "completeSession"
  /\ ~isRunning
  /\ liveTimers = 0
  /\ Len(history) = 2
  /\ ~isBreak

\* ------------------------------------------------- playback resource claims
\* C24: transient audio handles do not accumulate: whenever a new playable
\* URL is created from an item (loadPlaylist, playCurrent, next, previous,
\* auto-advance) the previously created one is released, so after any
\* sequence of operations at most one created URL is unreleased.
C24_AtMostOneUrl == unreleasedUrls <= 1

====
